---- MODULE Spec2Model ----
(***************************************************************************)
(* A model of sqld's replication core: the transaction boundary            *)
(* classifier (src/src/statements.rs) and the log streaming service in     *)
(* its two versions, WalLogService (src/sqld/src/rpc/wal_log.rs) and       *)
(* ReplicationLogService (src/sqld/src/rpc/replication_log.rs).  A server  *)
(* registers one of the two services; `service` says which.  The          *)
(* supervisor loop of run_server and hard_reset (src/sqld/src/lib.rs) is   *)
(* modelled beside them.                                                   *)
(***************************************************************************)
EXTENDS Integers, Sequences, FiniteSets, TLC

VARIABLES
    \* ---- statements.rs ----
    ast,          \* the parser's output: a sequence of sqlparser Statement variants
    stmtPc,       \* "idle" | "parse" | "parsed" | "panicked" | "done"
    kinds,        \* Statements.kinds: Vec<StmtKind>
    initial,      \* the State handed to Statements::state
    result,       \* the State it returned ("none" before the call)
    \* ---- wal_log.rs, replication_log.rs ----
    service,              \* the service the server registered
    replicas_with_hello,  \* the service's replicas_with_hello set
    hello,                \* per client: its hello handler's position and last response
    log,                  \* the logger's frames, by offset (offset 0 is log[1])
    conn,                 \* per client: its last log_entries response and the stream behind it
    \* ---- replication_log.rs only ----
    compacted,            \* frames trimmed from the live log; the newest snapshot covers them
    idle_shutdown_layer,  \* ReplicationLogService.idle_shutdown_layer: "Some" | "None"
    connected_replicas,   \* the IdleShutdownLayer's count of connected replicas
    snap,                 \* per client: its last snapshot response and the stream behind it
    \* ---- lib.rs ----
    serverPc,     \* run_server's position: "loop_top" | "start" | "select" |
                  \*   "hard_reset_await" | "hard_reset_remove" | "returned"
    returned,     \* what run_server returned ("none" while it runs)
    db_path,      \* config.db_path on disk: "absent" | "empty" | "used"
    system,       \* the System of the current loop iteration
    HARD_RESET,   \* the HARD_RESET Notify: a pending wake-up, and the notifications sent
    SHUTDOWN,     \* the SHUTDOWN Notify, likewise
    starts,       \* how many times run_server has started the services
    wipes         \* how many times the database directory has been removed

stmtVars == <<ast, stmtPc, kinds, initial, result>>
serviceVars == <<service, replicas_with_hello, hello, log, conn,
                 compacted, idle_shutdown_layer, connected_replicas, snap>>

serverVars == <<serverPc, returned, db_path, system, HARD_RESET, SHUTDOWN, starts, wipes>>

vars == <<stmtVars, serviceVars, serverVars>>

----------------------------------------------------------------------------
(* Bounds *)

\* The longest batch of statements.
MaxStmts == 3
\* The most frames the writer appends.
MaxLog == 4
\* The frames of a log grown past the capacity of the streams' channels.
Backlog == 66
\* The most notifications sent on each of HARD_RESET and SHUTDOWN.
MaxSignals == 2
\* The width of an offset in bits (u64 in the code), scaled down: the largest
\* offset stays out of reach of the log.
OffsetBits == 3

----------------------------------------------------------------------------
(* src/src/statements.rs *)

\* sqlparser::ast::Statement, by the variants StmtKind::kind tells apart.
AstKinds ==
    {"StartTransaction", "SetTransaction", "Rollback", "Commit", "Savepoint", "Query"}

StmtKind == {"TxnBegin", "TxnEnd", "Other"}

State == {"TxnOpened", "TxnClosed", "Start", "Invalid"}

\* The variants StmtKind::kind answers with todo!(): a panic.
Unhandled == {"SetTransaction", "Savepoint"}

\* StmtKind::kind, for the variants it returns on.
Kind(stmt) ==
    IF stmt = "StartTransaction" THEN "TxnBegin"
    ELSE IF stmt \in {"Rollback", "Commit"} THEN "TxnEnd"
    ELSE "Other"

\* Transition with the arm (State::Start, StmtKind::TxnEnd) answering Invalid.
Transition_StartEndInvalid(old_state, current) ==
    IF (old_state = "TxnOpened" /\ current = "TxnBegin")
         \/ (old_state \in {"TxnClosed", "Start"} /\ current = "TxnEnd") THEN "Invalid"
    ELSE IF old_state = "TxnOpened" /\ current = "TxnEnd" THEN "TxnClosed"
    ELSE IF old_state = "TxnClosed" /\ current = "TxnBegin" THEN "TxnOpened"
    ELSE IF current = "Other" THEN old_state
    ELSE IF old_state = "Invalid" THEN "Invalid"
    ELSE "TxnOpened"

\* Transition without the arm (State::Invalid, _): Invalid falls through to the
\* arms of State::Start.
Transition_InvalidRestarts(old_state, current) ==
    IF (old_state = "TxnOpened" /\ current = "TxnBegin")
         \/ (old_state = "TxnClosed" /\ current = "TxnEnd") THEN "Invalid"
    ELSE IF old_state = "TxnOpened" /\ current = "TxnEnd" THEN "TxnClosed"
    ELSE IF old_state = "TxnClosed" /\ current = "TxnBegin" THEN "TxnOpened"
    ELSE IF current = "Other" THEN old_state
    ELSE IF current = "TxnBegin" THEN "TxnOpened"
    ELSE "TxnClosed"

\* Transition with (State::TxnOpened, StmtKind::TxnBegin) missing from the first
\* arm: a nested begin leaves the transaction open.
Transition_NestedBeginAccepted(old_state, current) ==
    IF old_state = "TxnClosed" /\ current = "TxnEnd" THEN "Invalid"
    ELSE IF old_state = "TxnOpened" /\ current = "TxnEnd" THEN "TxnClosed"
    ELSE IF old_state = "TxnClosed" /\ current = "TxnBegin" THEN "TxnOpened"
    ELSE IF current = "Other" THEN old_state
    ELSE IF old_state = "Invalid" THEN "Invalid"
    ELSE IF current = "TxnBegin" THEN "TxnOpened"
    ELSE "TxnClosed"

\* The closure of the fold in Statements::state: the match arms in source order,
\* the first that matches wins.
Transition(old_state, current) ==
    IF (old_state = "TxnOpened" /\ current = "TxnBegin")
         \/ (old_state = "TxnClosed" /\ current = "TxnEnd") THEN "Invalid"
    ELSE IF old_state = "TxnOpened" /\ current = "TxnEnd" THEN "TxnClosed"
    ELSE IF old_state = "TxnClosed" /\ current = "TxnBegin" THEN "TxnOpened"
    ELSE IF current = "Other" THEN old_state
    ELSE IF old_state = "Invalid" THEN "Invalid"
    ELSE IF old_state = "Start" /\ current = "TxnBegin" THEN "TxnOpened"
    ELSE "TxnClosed"   \* (State::Start, StmtKind::TxnEnd)

\* The fold taking the kinds from the last to the first.
RECURSIVE StatementsState_RightToLeft(_, _)
StatementsState_RightToLeft(ks, state) ==
    IF ks = <<>> THEN state
    ELSE Transition(StatementsState_RightToLeft(Tail(ks), state), Head(ks))

\* Statements::state: self.kinds.iter().fold(state, ...), left to right.
RECURSIVE StatementsState(_, _)
StatementsState(ks, state) ==
    IF ks = <<>> THEN state
    ELSE StatementsState(Tail(ks), Transition(state, Head(ks)))

SeqsUpTo(S, n) == UNION {[1..m -> S] : m \in 0..n}

\* No batch is being classified.
StmtIdle ==
    /\ ast = <<>>
    /\ stmtPc = "idle"
    /\ kinds = <<>>
    /\ initial = "Start"
    /\ result = "none"

StmtInit ==
    /\ ast \in SeqsUpTo(AstKinds, MaxStmts)
    /\ stmtPc = "parse"
    /\ kinds = <<>>
    /\ initial \in State
    /\ result = "none"

\* parse with StmtKind::kind answering Other where it has todo!().
Parse_UnhandledAsOther ==
    /\ stmtPc = "parse"
    /\ stmtPc' = "parsed"
    /\ kinds' = [i \in 1..Len(ast) |-> Kind(ast[i])]
    /\ UNCHANGED <<ast, initial, result, serviceVars, serverVars>>

\* Statements::parse: statements.iter().map(StmtKind::kind).collect(); the first
\* unhandled statement panics and no Statements value is built.
Parse ==
    /\ stmtPc = "parse"
    /\ IF \E i \in 1..Len(ast) : ast[i] \in Unhandled
       THEN /\ stmtPc' = "panicked"
            /\ UNCHANGED kinds
       ELSE /\ stmtPc' = "parsed"
            /\ kinds' = [i \in 1..Len(ast) |-> Kind(ast[i])]
    /\ UNCHANGED <<ast, initial, result, serviceVars, serverVars>>

\* A call of Statements::state on the parsed batch.
CallState ==
    /\ stmtPc = "parsed"
    /\ result' = StatementsState(kinds, initial)
    /\ stmtPc' = "done"
    /\ UNCHANGED <<ast, kinds, initial, serviceVars, serverVars>>

----------------------------------------------------------------------------
(* Clients, frames and responses, common to the two services *)

Services == {"WalLogService", "ReplicationLogService"}

\* Replica identities: the remote address of a request (req.remote_addr()).
Addrs == {"a1", "a2"}
\* A request whose transport gives no remote address: remote_addr() is None.
NoAddr == "no_addr"
Clients == Addrs \cup {NoAddr}

\* A frame's bytes carry its header, and the header its frame number: the
\* frame appended to a log of n frames is frame number n.
NewFrame(frames) == [frame_no |-> Len(frames)]
NoFrame == [frame_no |-> -1]

\* tonic::Status values, and the items of a response stream.
NO_HELLO_ERROR_MSG == "NO_HELLO"
NEED_SNAPSHOT_ERROR_MSG == "NEED_SNAPSHOT"
NO_REMOTE_ADDR_MSG == "No remote RPC address"
Status(code, msg) == [item |-> "err", code |-> code, msg |-> msg]
OkFrame(data) == [item |-> "frame", data |-> data]

NoConn == [kind |-> "none"]
Rejected(code, msg) == [kind |-> "rejected", code |-> code, msg |-> msg]

\* u64::MAX
U64Max == 2^OffsetBits - 1

\* LogOffset's offset field, as the client sets it.  current_offset of the
\* WalLogService is an Option<u64>: NoOffset is None.
NoOffset == -1
ReqOffsets == 0..MaxLog
WalReqOffsets == {NoOffset} \cup 0..(MaxLog - 1) \cup {U64Max}

----------------------------------------------------------------------------
(* src/sqld/src/rpc/wal_log.rs *)

\* tokio::sync::mpsc::channel(64) in stream_pages.
WalChannelCapacity == 64

\* x + 1 on u64::MAX in a build with overflow checks: a panic.
AddOverflow == -2

\* log_entries: current_offset.map(|x| x + 1).unwrap_or(0) on a u64; a build
\* without overflow checks wraps.
WalStartOffset(current_offset, overflow_checks) ==
    IF current_offset = NoOffset THEN 0
    ELSE IF current_offset + 1 <= U64Max THEN current_offset + 1
    ELSE IF overflow_checks THEN AddOverflow
    ELSE (current_offset + 1) % (U64Max + 1)

\* The handler's task panicked; the client gets no response.
Panicked == [kind |-> "panicked"]

\* WalLogger::frame_bytes(offset) without an I/O failure: the frame at the
\* offset, or None past the end of the log.
FrameBytes(frames, offset) ==
    IF offset < Len(frames) THEN frames[offset + 1] ELSE NoFrame

\* What stream_pages builds: the channel, the spawned producer at its first
\* read, and the ReceiverStream handed to the caller.
WalStream(start_id) ==
    [kind |-> "stream", start |-> start_id, offset |-> start_id,
     pc |-> "read", held |-> NoFrame, chan |-> <<>>,
     rx |-> "open", delivered |-> <<>>]

\* A client sends its next log_entries only when it has no live stream.
WalFree(c) ==
    IF conn[c].kind = "stream"
    THEN conn[c].rx # "open" /\ conn[c].pc \in {"exited", "panicked"}
    ELSE TRUE

\* What a WalLogService action leaves alone besides the variables it names.
walFrame == <<stmtVars, serverVars, service, compacted, idle_shutdown_layer, connected_replicas, snap>>

\* WalLogService::hello, up to the insert under the write lock; without a remote
\* address it returns Status::internal at once.
WalHelloRegister(c) == replicas_with_hello \cup {c}

WalHelloInsert(c) ==
    /\ service = "WalLogService"
    /\ hello[c].pc = "idle"
    /\ IF c = NoAddr
       THEN /\ hello' = [hello EXCEPT ![c].resp = "Internal"]
            /\ UNCHANGED replicas_with_hello
       ELSE /\ replicas_with_hello' = WalHelloRegister(c)
            /\ hello' = [hello EXCEPT ![c].pc = "inserted"]
    /\ UNCHANGED <<log, conn, walFrame>>

\* WalLogService::hello, from the released lock on: build the HelloResponse
\* and return it.
WalHelloReturn(c) ==
    /\ service = "WalLogService"
    /\ hello[c].pc = "inserted"
    /\ hello' = [hello EXCEPT ![c] = [pc |-> "idle", resp |-> "Ok"]]
    /\ UNCHANGED <<replicas_with_hello, log, conn, walFrame>>

\* log_entries looking for any registered replica, not for the caller.
WalLogEntriesResponse_AnyHello(c, current_offset, overflow_checks) ==
    IF c = NoAddr THEN Rejected("Internal", NO_REMOTE_ADDR_MSG)
    ELSE IF replicas_with_hello = {}
         THEN Rejected("FailedPrecondition", NO_HELLO_ERROR_MSG)
    ELSE IF WalStartOffset(current_offset, overflow_checks) = AddOverflow THEN Panicked
    ELSE [req |-> current_offset] @@ WalStream(WalStartOffset(current_offset, overflow_checks))

\* WalLogService::log_entries: its response; `req` keeps the request's
\* current_offset beside the stream of stream_pages.
WalLogEntriesResponse(c, current_offset, overflow_checks) ==
    IF c = NoAddr THEN Rejected("Internal", NO_REMOTE_ADDR_MSG)
    ELSE IF c \notin replicas_with_hello
         THEN Rejected("FailedPrecondition", NO_HELLO_ERROR_MSG)
    ELSE IF WalStartOffset(current_offset, overflow_checks) = AddOverflow THEN Panicked
    ELSE [req |-> current_offset] @@ WalStream(WalStartOffset(current_offset, overflow_checks))

\* log_entries in a build with (overflow_checks) or without overflow checks.
WalLogEntries(c, current_offset, overflow_checks) ==
    /\ service = "WalLogService"
    /\ WalFree(c)
    /\ conn' = [conn EXCEPT ![c] = WalLogEntriesResponse(c, current_offset, overflow_checks)]
    /\ UNCHANGED <<replicas_with_hello, hello, log, walFrame>>

\* The producer's loop in stream_pages, at logger.frame_bytes(offset):
\* Ok(None) breaks, Ok(Some(data)) goes on to the send.
WalReadOutcome(s, frames) ==
    IF FrameBytes(frames, s.offset) = NoFrame
    THEN [s EXCEPT !.pc = "exited"]
    ELSE [s EXCEPT !.pc = "send", !.held = FrameBytes(frames, s.offset)]

WalProducerRead(c) ==
    /\ service = "WalLogService"
    /\ conn[c].kind = "stream"
    /\ conn[c].pc = "read"
    /\ conn' = [conn EXCEPT ![c] = WalReadOutcome(conn[c], log)]
    /\ UNCHANGED <<replicas_with_hello, hello, log, walFrame>>

\* frame_bytes returns Err(e): the arm is todo!("{e}"), a panic of the blocking
\* task, which drops the sender.
WalReadFailure(s) == [s EXCEPT !.pc = "panicked"]

WalProducerReadError(c) ==
    /\ service = "WalLogService"
    /\ conn[c].kind = "stream"
    /\ conn[c].pc = "read"
    /\ conn' = [conn EXCEPT ![c] = WalReadFailure(conn[c])]
    /\ UNCHANGED <<replicas_with_hello, hello, log, walFrame>>

\* The send without the offset += 1 after it.
WalSendOutcome_NoAdvance(s) ==
    IF s.rx # "open"
    THEN [s EXCEPT !.pc = "exited", !.held = NoFrame]
    ELSE [s EXCEPT !.pc = "read", !.held = NoFrame,
                   !.chan = Append(s.chan, OkFrame(s.held))]

\* sender.blocking_send(Ok(Frame { data })): an error (the receiver is gone)
\* breaks; otherwise the frame is queued and offset += 1.
WalSendOutcome(s) ==
    IF s.rx # "open"
    THEN [s EXCEPT !.pc = "exited", !.held = NoFrame]
    ELSE [s EXCEPT !.pc = "read", !.held = NoFrame,
                   !.chan = Append(s.chan, OkFrame(s.held)),
                   !.offset = s.offset + 1]

\* The send over a channel that never makes its sender wait.
WalProducerSend_NoBlock(c) ==
    /\ service = "WalLogService"
    /\ conn[c].kind = "stream"
    /\ conn[c].pc = "send"
    /\ conn' = [conn EXCEPT ![c] = WalSendOutcome(conn[c])]
    /\ UNCHANGED <<replicas_with_hello, hello, log, walFrame>>

\* blocking_send blocks while the channel is full and the receiver alive.
WalProducerSend(c) ==
    /\ service = "WalLogService"
    /\ conn[c].kind = "stream"
    /\ conn[c].pc = "send"
    /\ IF conn[c].rx = "open" THEN Len(conn[c].chan) < WalChannelCapacity ELSE TRUE
    /\ conn' = [conn EXCEPT ![c] = WalSendOutcome(conn[c])]
    /\ UNCHANGED <<replicas_with_hello, hello, log, walFrame>>

\* The consumer polls the ReceiverStream: the next queued item, or the end of
\* the stream once the channel is empty and the sender dropped.
WalRecvOutcome(s) ==
    IF s.chan # <<>>
    THEN [s EXCEPT !.delivered = Append(s.delivered, Head(s.chan)), !.chan = Tail(s.chan)]
    ELSE [s EXCEPT !.rx = "ended"]

WalConsumerRecv(c) ==
    /\ service = "WalLogService"
    /\ conn[c].kind = "stream"
    /\ conn[c].rx = "open"
    /\ IF conn[c].chan = <<>> THEN conn[c].pc \in {"exited", "panicked"} ELSE TRUE
    /\ conn' = [conn EXCEPT ![c] = WalRecvOutcome(conn[c])]
    /\ UNCHANGED <<replicas_with_hello, hello, log, walFrame>>

\* The consumer disconnects or cancels: the ReceiverStream is dropped, and the
\* channel's buffer with it.
WalConsumerCancel(c) ==
    /\ service = "WalLogService"
    /\ conn[c].kind = "stream"
    /\ conn[c].rx = "open"
    /\ conn' = [conn EXCEPT ![c].rx = "dropped", ![c].chan = <<>>]
    /\ UNCHANGED <<replicas_with_hello, hello, log, walFrame>>

\* The writer appends a frame to the WalLogger's log.
WalAppend ==
    /\ service = "WalLogService"
    /\ Len(log) < MaxLog
    /\ log' = Append(log, NewFrame(log))
    /\ UNCHANGED <<replicas_with_hello, hello, conn, walFrame>>

----------------------------------------------------------------------------
(* src/sqld/src/rpc/replication_log.rs: hello and log_entries *)

\* ReplicationLogger's read of one offset (its code is outside src/; the
\* specification's read(offset) -> Frame | Ahead | Compacted): compacted
\* offsets need a snapshot, offsets past the end are ahead.
LogRead(frames, trimmed, offset) ==
    IF offset < trimmed THEN [res |-> "SnapshotRequired"]
    ELSE IF offset >= Len(frames) THEN [res |-> "Ahead"]
    ELSE [res |-> "Frame", frame |-> frames[offset + 1]]

\* A read that fails in the storage: LogReadError::Error(e).
LogReadFailure == [res |-> "Error"]

\* map_frame_stream_output with SnapshotRequired falling in with the other
\* errors.
map_frame_stream_output_SnapshotInternal(r) ==
    IF r.res = "Frame" THEN OkFrame(r.frame)
    ELSE IF r.res \in {"SnapshotRequired", "Error"} THEN Status("Internal", "e.to_string()")
    ELSE Status("OutOfRange", "frame not yet available")

\* map_frame_stream_output
map_frame_stream_output(r) ==
    IF r.res = "Frame" THEN OkFrame(r.frame)
    ELSE IF r.res = "SnapshotRequired"
         THEN Status("FailedPrecondition", NEED_SNAPSHOT_ERROR_MSG)
    ELSE IF r.res = "Error" THEN Status("Internal", "e.to_string()")
    ELSE Status("OutOfRange", "frame not yet available")

\* IdleShutdownLayer's counter (its code is outside src/; the specification's
\* connected-replica count, incremented and decremented by one).
add_connected_replica(n) == n + 1
remove_connected_replica(n) == n - 1

\* StreamGuard::new: the increment, when there is an idle-shutdown layer.
StreamGuardNew(n, isl) == IF isl = "Some" THEN add_connected_replica(n) ELSE n

\* A StreamGuard without its Drop: nothing is decremented.
StreamGuardDrop_NoDecrement(n, isl) == n

\* Drop for StreamGuard: the decrement, when there is an idle-shutdown layer.
StreamGuardDrop(n, isl) == IF isl = "Some" THEN remove_connected_replica(n) ELSE n

\* The stream log_entries returns: a FrameStream from next_offset inside a
\* StreamGuard, mapped by map_frame_stream_output and boxed.  `reads` keeps the
\* log reads behind the delivered items, `end` why the stream was dropped.
ReplStream(next_offset) ==
    [kind |-> "stream", start |-> next_offset, offset |-> next_offset,
     state |-> "open", delivered |-> <<>>, reads |-> <<>>, end |-> "none"]

\* A client sends its next log_entries only when it has no live stream.
ReplFree(c) ==
    IF conn[c].kind = "stream" THEN conn[c].state = "dropped" ELSE TRUE

\* What a log_entries or hello action of the ReplicationLogService leaves alone
\* besides the variables it names.
replFrame == <<stmtVars, serverVars, service, idle_shutdown_layer, snap>>

\* A registry with room for the newest replica only.
ReplHelloRegister_Replaces(c) == {c}

\* ReplicationLogService::hello, up to the insert under the write lock; without
\* a remote address it returns Status::internal at once.
ReplHelloRegister(c) == replicas_with_hello \cup {c}

ReplHelloInsert(c) ==
    /\ service = "ReplicationLogService"
    /\ hello[c].pc = "idle"
    /\ IF c = NoAddr
       THEN /\ hello' = [hello EXCEPT ![c].resp = "Internal"]
            /\ UNCHANGED replicas_with_hello
       ELSE /\ replicas_with_hello' = ReplHelloRegister(c)
            /\ hello' = [hello EXCEPT ![c].pc = "inserted"]
    /\ UNCHANGED <<log, conn, compacted, connected_replicas, replFrame>>

\* ReplicationLogService::hello, from the released lock on: build the
\* HelloResponse and return it.
ReplHelloReturn(c) ==
    /\ service = "ReplicationLogService"
    /\ hello[c].pc = "inserted"
    /\ hello' = [hello EXCEPT ![c] = [pc |-> "idle", resp |-> "Ok"]]
    /\ UNCHANGED <<replicas_with_hello, log, conn, compacted, connected_replicas, replFrame>>

\* ReplicationLogService::log_entries: its response.
ReplLogEntriesResponse(c, next_offset) ==
    IF c = NoAddr THEN Rejected("Internal", NO_REMOTE_ADDR_MSG)
    ELSE IF c \notin replicas_with_hello
         THEN Rejected("FailedPrecondition", NO_HELLO_ERROR_MSG)
    ELSE ReplStream(next_offset)

\* log_entries building its StreamGuard before the checks of the request.
ReplLogEntries_GuardBeforeChecks(c, next_offset) ==
    /\ service = "ReplicationLogService"
    /\ ReplFree(c)
    /\ conn' = [conn EXCEPT ![c] = ReplLogEntriesResponse(c, next_offset)]
    /\ connected_replicas' = StreamGuardNew(connected_replicas, idle_shutdown_layer)
    /\ UNCHANGED <<replicas_with_hello, hello, log, compacted, replFrame>>

\* ReplicationLogService::log_entries; a returned stream has passed through
\* StreamGuard::new.
ReplLogEntries(c, next_offset) ==
    /\ service = "ReplicationLogService"
    /\ ReplFree(c)
    /\ conn' = [conn EXCEPT ![c] = ReplLogEntriesResponse(c, next_offset)]
    /\ connected_replicas' =
          IF ReplLogEntriesResponse(c, next_offset).kind = "stream"
          THEN StreamGuardNew(connected_replicas, idle_shutdown_layer)
          ELSE connected_replicas
    /\ UNCHANGED <<replicas_with_hello, hello, log, compacted, replFrame>>

\* One poll of the stream with the log read result r (FrameStream's code is
\* outside src/; per the specification an Ahead read waits for new data and
\* yields nothing, a frame advances the offset, an error is yielded).  The item
\* is what map_frame_stream_output makes of the read; tonic ends the response
\* after an error item.
ReplPollOutcome(s, r) ==
    IF r.res = "Ahead" THEN s
    ELSE [s EXCEPT !.delivered = Append(s.delivered, map_frame_stream_output(r)),
                   !.reads = Append(s.reads, r.res),
                   !.offset = IF r.res = "Frame" THEN s.offset + 1 ELSE s.offset,
                   !.state = IF r.res = "Frame" THEN "open" ELSE "done"]

ReplStreamPoll(c) ==
    /\ service = "ReplicationLogService"
    /\ conn[c].kind = "stream"
    /\ conn[c].state = "open"
    /\ conn' = [conn EXCEPT ![c] = ReplPollOutcome(conn[c], LogRead(log, compacted, conn[c].offset))]
    /\ UNCHANGED <<replicas_with_hello, hello, log, compacted, connected_replicas, replFrame>>

\* A poll whose log read fails in the storage.
ReplStreamPollError(c) ==
    /\ service = "ReplicationLogService"
    /\ conn[c].kind = "stream"
    /\ conn[c].state = "open"
    /\ conn' = [conn EXCEPT ![c] = ReplPollOutcome(conn[c], LogReadFailure)]
    /\ UNCHANGED <<replicas_with_hello, hello, log, compacted, connected_replicas, replFrame>>

\* The drop of the stream forgetting the replica's registration as well.
ReplStreamDrop_ForgetsReplica(c, why) ==
    /\ service = "ReplicationLogService"
    /\ conn[c].kind = "stream"
    /\ \/ conn[c].state = "done" /\ why = "error"
       \/ conn[c].state = "open" /\ why \in {"cancelled", "closed"}
    /\ conn' = [conn EXCEPT ![c].state = "dropped", ![c].end = why]
    /\ connected_replicas' = StreamGuardDrop(connected_replicas, idle_shutdown_layer)
    /\ replicas_with_hello' = replicas_with_hello \ {c}
    /\ UNCHANGED <<hello, log, compacted, replFrame>>

\* The boxed stream is dropped, and the StreamGuard in it: after its error
\* item ("error"), or while open because the client cancelled ("cancelled")
\* or the transport closed the response ("closed").
ReplStreamDrop(c, why) ==
    /\ service = "ReplicationLogService"
    /\ conn[c].kind = "stream"
    /\ \/ conn[c].state = "done" /\ why = "error"
       \/ conn[c].state = "open" /\ why \in {"cancelled", "closed"}
    /\ conn' = [conn EXCEPT ![c].state = "dropped", ![c].end = why]
    /\ connected_replicas' = StreamGuardDrop(connected_replicas, idle_shutdown_layer)
    /\ UNCHANGED <<replicas_with_hello, hello, log, compacted, replFrame>>

\* The writer appends a frame to the ReplicationLogger's log.
ReplAppend ==
    /\ service = "ReplicationLogService"
    /\ Len(log) < MaxLog
    /\ log' = Append(log, NewFrame(log))
    /\ UNCHANGED <<replicas_with_hello, hello, conn, compacted, connected_replicas, replFrame>>

\* Compaction: the live log is trimmed up to offset upto (exclusive), and a
\* snapshot covers what was trimmed.
ReplCompact(upto) ==
    /\ service = "ReplicationLogService"
    /\ compacted < upto
    /\ upto <= Len(log)
    /\ compacted' = upto
    /\ UNCHANGED <<replicas_with_hello, hello, log, conn, connected_replicas, replFrame>>

----------------------------------------------------------------------------
(* src/sqld/src/rpc/replication_log.rs: snapshot *)

\* mpsc::channel(10) in snapshot.
SnapshotChannelCapacity == 10

\* ReplicationLogger::get_snapshot_file(offset) without a failure (its code is
\* outside src/; per the specification a snapshot covers the log history up
\* to its boundary): the snapshot up to the compaction boundary when it covers
\* the offset, else None.
GetSnapshotFile(trimmed, offset) ==
    IF offset < trimmed THEN [found |-> "Some", end |-> trimmed]
    ELSE [found |-> "None"]

\* What the awaited spawn_blocking(get_snapshot_file) can also give: Ok(Err(e)),
\* the lookup failed; Err(e), the blocking task did not complete.
LookupFailures == {[found |-> "Err"], [found |-> "JoinErr"]}

\* SnapshotFile::frames_iter_from(offset) (outside src/): the snapshot's
\* frames from the offset on, in order.
FramesIterFrom(frames, snapshot, offset) ==
    SubSeq(frames, offset + 1, snapshot.end)

\* The Some arm of snapshot: the spawned producer at its first frames.next(),
\* and the ReceiverStream of the channel, boxed.  `iter` keeps what the
\* iterator had to give when it was made.
SnapshotStream(iter) ==
    [kind |-> "snapshot", lookup |-> "Some", iter |-> iter, frames |-> iter,
     pc |-> "next", held |-> NoFrame, chan |-> <<>>,
     rx |-> "open", delivered |-> <<>>, failed |-> FALSE]

SnapRejected(code, msg, lookup) ==
    [kind |-> "rejected", code |-> code, msg |-> msg, lookup |-> lookup]

\* snapshot answering a missing snapshot like a failed lookup.
SnapshotResponse_NoneInternal(frames, lookup, offset) ==
    IF lookup.found = "Some"
    THEN SnapshotStream(FramesIterFrom(frames, lookup, offset))
    ELSE SnapRejected("Internal", "e.to_string()", lookup.found)

\* ReplicationLogService::snapshot: the match on the awaited lookup.
SnapshotResponse(frames, lookup, offset) ==
    IF lookup.found = "Some"
    THEN SnapshotStream(FramesIterFrom(frames, lookup, offset))
    ELSE IF lookup.found = "None"
         THEN SnapRejected("Unavailable", "snapshot not found", "None")
    ELSE SnapRejected("Internal", "e.to_string()", lookup.found)

\* A client sends its next snapshot request only when it has no live one.
SnapFree(c) ==
    IF snap[c].kind = "snapshot"
    THEN snap[c].rx # "open" /\ snap[c].pc = "exited"
    ELSE TRUE

\* What a snapshot action leaves alone besides snap.
snapFrame == <<stmtVars, serverVars, service, replicas_with_hello, hello, log, conn,
               compacted, idle_shutdown_layer, connected_replicas>>

\* ReplicationLogService::snapshot, the lookup completing.
ReplSnapshot(c, offset) ==
    /\ service = "ReplicationLogService"
    /\ SnapFree(c)
    /\ snap' = [snap EXCEPT ![c] = SnapshotResponse(log, GetSnapshotFile(compacted, offset), offset)]
    /\ UNCHANGED snapFrame

\* ReplicationLogService::snapshot, the lookup failing.
ReplSnapshotLookupFails(c, offset, failure) ==
    /\ service = "ReplicationLogService"
    /\ SnapFree(c)
    /\ snap' = [snap EXCEPT ![c] = SnapshotResponse(log, failure, offset)]
    /\ UNCHANGED snapFrame

\* The producer's loop at frames.next(): None breaks, Some(Ok(data)) goes on
\* to send the frame.
SnapNextOutcome(s) ==
    IF s.frames = <<>>
    THEN [s EXCEPT !.pc = "exited"]
    ELSE [s EXCEPT !.pc = "send", !.held = OkFrame(Head(s.frames)),
                   !.frames = Tail(s.frames)]

SnapProducerNext(c) ==
    /\ service = "ReplicationLogService"
    /\ snap[c].kind = "snapshot"
    /\ snap[c].pc = "next"
    /\ snap' = [snap EXCEPT ![c] = SnapNextOutcome(snap[c])]
    /\ UNCHANGED snapFrame

\* frames.next() gives Some(Err(e)): the producer goes on to send
\* Err(Status::new(Internal, e.to_string())).
SnapNextFailure(s) ==
    [s EXCEPT !.pc = "send", !.held = Status("Internal", "e.to_string()"),
              !.failed = TRUE]

SnapProducerNextError(c) ==
    /\ service = "ReplicationLogService"
    /\ snap[c].kind = "snapshot"
    /\ snap[c].pc = "next"
    /\ snap[c].frames # <<>>
    /\ snap' = [snap EXCEPT ![c] = SnapNextFailure(snap[c])]
    /\ UNCHANGED snapFrame

\* The producer's loop breaking after its first send.
SnapSendOutcome_BreaksAfterSend(s) ==
    [s EXCEPT !.chan = IF s.rx = "open" THEN Append(s.chan, s.held) ELSE s.chan,
              !.held = NoFrame,
              !.pc = "exited"]

\* let _ = sender.blocking_send(item): the item is queued unless the receiver
\* is gone, and the result is ignored; after a frame the loop goes on, after
\* the error it breaks.
SnapSendOutcome(s) ==
    [s EXCEPT !.chan = IF s.rx = "open" THEN Append(s.chan, s.held) ELSE s.chan,
              !.held = NoFrame,
              !.pc = IF s.held.item = "frame" THEN "next" ELSE "exited"]

\* blocking_send blocks while the channel is full and the receiver alive.
SnapProducerSend(c) ==
    /\ service = "ReplicationLogService"
    /\ snap[c].kind = "snapshot"
    /\ snap[c].pc = "send"
    /\ IF snap[c].rx = "open" THEN Len(snap[c].chan) < SnapshotChannelCapacity ELSE TRUE
    /\ snap' = [snap EXCEPT ![c] = SnapSendOutcome(snap[c])]
    /\ UNCHANGED snapFrame

\* The consumer polls the boxed ReceiverStream: the next queued item (tonic
\* ends the response after an error item), or the end of the stream once the
\* channel is empty and the sender dropped.
SnapRecvOutcome(s) ==
    IF s.chan # <<>>
    THEN [s EXCEPT !.delivered = Append(s.delivered, Head(s.chan)),
                   !.chan = Tail(s.chan),
                   !.rx = IF Head(s.chan).item = "err" THEN "ended" ELSE "open"]
    ELSE [s EXCEPT !.rx = "ended"]

SnapConsumerRecv(c) ==
    /\ service = "ReplicationLogService"
    /\ snap[c].kind = "snapshot"
    /\ snap[c].rx = "open"
    /\ IF snap[c].chan = <<>> THEN snap[c].pc = "exited" ELSE TRUE
    /\ snap' = [snap EXCEPT ![c] = SnapRecvOutcome(snap[c])]
    /\ UNCHANGED snapFrame

\* The consumer disconnects or cancels: the stream is dropped, and the
\* channel's buffer with it.
SnapConsumerCancel(c) ==
    /\ service = "ReplicationLogService"
    /\ snap[c].kind = "snapshot"
    /\ snap[c].rx = "open"
    /\ snap' = [snap EXCEPT ![c].rx = "dropped", ![c].chan = <<>>]
    /\ UNCHANGED snapFrame

----------------------------------------------------------------------------
(* src/sqld/src/lib.rs: run_server's supervisor loop and hard_reset *)

\* The services start_primary / start_replica and run_service register.
ServiceNames == {"rpc server", "http server"}

\* A tokio Notify: `permit` is a wake-up not yet taken by a notified() future,
\* `sent` counts the notifications.
NotifyNew == [permit |-> FALSE, sent |-> 0]

\* A notification (its senders are outside src/): notify_one() leaves a permit
\* for the next notified(); notify_waiters() wakes only a future that is
\* waiting, which run_server's is while it sits in select!.
Notified(n, how, waiting) ==
    [permit |-> n.permit \/ how = "notify_one" \/ waiting, sent |-> n.sent + 1]

\* System (its code is outside src/; lib.rs registers tasks on it, shuts it
\* down and awaits it): new() has no task, register adds a running one,
\* shutdown() tells every task to stop, and the System future completes when
\* no task is running any more.
SystemNew == [shutdown |-> FALSE, tasks |-> [s \in ServiceNames |-> "unregistered"]]
SystemRegister(sys, names) ==
    [sys EXCEPT !.tasks = [s \in ServiceNames |-> IF s \in names THEN "running" ELSE @[s]]]
SystemShutdown(sys) == [sys EXCEPT !.shutdown = TRUE]
SystemDone(sys) == \A s \in ServiceNames : sys.tasks[s] # "running"

\* What an action of run_server leaves alone besides the server variables.
serverFrame == <<stmtVars, serviceVars>>

\* The top of the outer loop: create_dir_all when the path does not exist, and
\* System::new().
RunServerCreateDir ==
    /\ serverPc = "loop_top"
    /\ db_path' = IF db_path = "absent" THEN "empty" ELSE db_path
    /\ system' = SystemNew
    /\ serverPc' = "start"
    /\ UNCHANGED <<returned, HARD_RESET, SHUTDOWN, starts, wipes, serverFrame>>

\* create_dir_all(&config.db_path)? failing: run_server returns the error.
RunServerCreateDirFails ==
    /\ serverPc = "loop_top"
    /\ db_path = "absent"
    /\ serverPc' = "returned"
    /\ returned' = "Err"
    /\ UNCHANGED <<db_path, system, HARD_RESET, SHUTDOWN, starts, wipes, serverFrame>>

\* start_primary / start_replica: the services are registered on the system
\* and open the database under db_path.
RunServerStart ==
    /\ serverPc = "start"
    /\ system' = SystemRegister(system, ServiceNames)
    /\ db_path' = "used"
    /\ starts' = starts + 1
    /\ serverPc' = "select"
    /\ UNCHANGED <<returned, HARD_RESET, SHUTDOWN, wipes, serverFrame>>

\* start_primary(..).await? / start_replica(..).await? failing.
RunServerStartFails ==
    /\ serverPc = "start"
    /\ serverPc' = "returned"
    /\ returned' = "Err"
    /\ UNCHANGED <<db_path, system, HARD_RESET, SHUTDOWN, starts, wipes, serverFrame>>

\* select!, the branch reset.notified(): hard_reset is called, which starts
\* with system.shutdown().
SelectHardReset ==
    /\ serverPc = "select"
    /\ HARD_RESET.permit
    /\ HARD_RESET' = [HARD_RESET EXCEPT !.permit = FALSE]
    /\ system' = SystemShutdown(system)
    /\ serverPc' = "hard_reset_await"
    /\ UNCHANGED <<returned, db_path, SHUTDOWN, starts, wipes, serverFrame>>

\* hard_reset going on without awaiting the system.
HardResetAwait_NoWait ==
    /\ serverPc = "hard_reset_await"
    /\ serverPc' = "hard_reset_remove"
    /\ UNCHANGED <<returned, db_path, system, HARD_RESET, SHUTDOWN, starts, wipes, serverFrame>>

\* hard_reset: let _ = system.await
HardResetAwait ==
    /\ serverPc = "hard_reset_await"
    /\ SystemDone(system)
    /\ serverPc' = "hard_reset_remove"
    /\ UNCHANGED <<returned, db_path, system, HARD_RESET, SHUTDOWN, starts, wipes, serverFrame>>

\* hard_reset: remove_dir_all(db_path), then Ok(()) and the break to the
\* outer loop.
HardResetRemove ==
    /\ serverPc = "hard_reset_remove"
    /\ db_path' = "absent"
    /\ wipes' = wipes + 1
    /\ serverPc' = "loop_top"
    /\ UNCHANGED <<returned, system, HARD_RESET, SHUTDOWN, starts, serverFrame>>

\* remove_dir_all(db_path).await? failing: hard_reset(..).await? returns the
\* error from run_server.
HardResetRemoveFails ==
    /\ serverPc = "hard_reset_remove"
    /\ serverPc' = "returned"
    /\ returned' = "Err"
    /\ UNCHANGED <<db_path, system, HARD_RESET, SHUTDOWN, starts, wipes, serverFrame>>

\* The shutdown branch leaving the inner loop with break.
SelectShutdown_Breaks ==
    /\ serverPc = "select"
    /\ SHUTDOWN.permit
    /\ SHUTDOWN' = [SHUTDOWN EXCEPT !.permit = FALSE]
    /\ serverPc' = "loop_top"
    /\ UNCHANGED <<returned, db_path, system, HARD_RESET, starts, wipes, serverFrame>>

\* select!, the branch shutdown.notified(): return Ok(())
SelectShutdown ==
    /\ serverPc = "select"
    /\ SHUTDOWN.permit
    /\ SHUTDOWN' = [SHUTDOWN EXCEPT !.permit = FALSE]
    /\ serverPc' = "returned"
    /\ returned' = "Ok"
    /\ UNCHANGED <<db_path, system, HARD_RESET, starts, wipes, serverFrame>>

\* select!, the branch res = &mut system: return res
SelectSystem ==
    /\ serverPc = "select"
    /\ SystemDone(system)
    /\ serverPc' = "returned"
    /\ returned' = "res"
    /\ UNCHANGED <<db_path, system, HARD_RESET, SHUTDOWN, starts, wipes, serverFrame>>

\* A registered service's task ends, on its own or because it was told to.
ServiceEnds(s) ==
    /\ serverPc # "returned"
    /\ system.tasks[s] = "running"
    /\ system' = [system EXCEPT !.tasks[s] = "finished"]
    /\ UNCHANGED <<serverPc, returned, db_path, HARD_RESET, SHUTDOWN, starts, wipes, serverFrame>>

\* Some task of the process notifies HARD_RESET.
NotifyHardReset(how) ==
    /\ HARD_RESET.sent < MaxSignals
    /\ HARD_RESET' = Notified(HARD_RESET, how, serverPc = "select")
    /\ UNCHANGED <<serverPc, returned, db_path, system, SHUTDOWN, starts, wipes, serverFrame>>

\* Some task of the process notifies SHUTDOWN.
NotifyShutdown(how) ==
    /\ SHUTDOWN.sent < MaxSignals
    /\ SHUTDOWN' = Notified(SHUTDOWN, how, serverPc = "select")
    /\ UNCHANGED <<serverPc, returned, db_path, system, HARD_RESET, starts, wipes, serverFrame>>

----------------------------------------------------------------------------
(* Specifications *)

\* run_server in its select!, the services started once and running.
ServerRunning ==
    /\ serverPc = "select"
    /\ returned = "none"
    /\ db_path = "used"
    /\ system = SystemRegister(SystemNew, ServiceNames)
    /\ HARD_RESET = NotifyNew
    /\ SHUTDOWN = NotifyNew
    /\ starts = 1
    /\ wipes = 0

\* The services' state after construction.
ServiceIdle ==
    /\ replicas_with_hello = {}
    /\ hello = [c \in Clients |-> [pc |-> "idle", resp |-> "none"]]
    /\ log = <<>>
    /\ conn = [c \in Clients |-> NoConn]
    /\ compacted = 0
    /\ connected_replicas = 0
    /\ snap = [c \in Clients |-> NoConn]

\* The classifier alone.
InitStmt ==
    /\ StmtInit
    /\ ServerRunning
    /\ service = "WalLogService"
    /\ idle_shutdown_layer = "None"
    /\ ServiceIdle

StmtNext == Parse \/ CallState

SpecStmt == InitStmt /\ [][StmtNext]_vars

\* A server with either service; the ReplicationLogService with or without an
\* idle-shutdown layer.
InitService ==
    /\ StmtIdle
    /\ ServerRunning
    /\ service \in Services
    /\ idle_shutdown_layer \in
          IF service = "ReplicationLogService" THEN {"Some", "None"} ELSE {"None"}
    /\ ServiceIdle

\* The request handlers of the service, for every client.  A stream, once
\* opened, is not followed frame by frame here: it fails or is dropped.
RpcNext ==
    \/ \E c \in Clients : WalHelloInsert(c)
    \/ \E c \in Addrs : WalHelloReturn(c)
    \/ \E c \in Clients, o \in WalReqOffsets, oc \in BOOLEAN : WalLogEntries(c, o, oc)
    \/ \E c \in Addrs : WalConsumerCancel(c)
    \/ \E c \in Clients : ReplHelloInsert(c)
    \/ \E c \in Addrs : ReplHelloReturn(c)
    \/ \E c \in Clients, o \in ReqOffsets : ReplLogEntries(c, o)
    \/ \E c \in Addrs : ReplStreamPollError(c)
    \/ \E c \in Addrs, why \in {"error", "cancelled", "closed"} : ReplStreamDrop(c, why)

SpecRpc == InitService /\ [][RpcNext]_vars

\* The replica whose stream is followed frame by frame.
Replica == "a1"

\* Streaming: one replica's handshake, log_entries, stream, and the writer.
StreamNext ==
    \/ WalHelloInsert(Replica)
    \/ WalHelloReturn(Replica)
    \/ \E o \in WalReqOffsets, oc \in BOOLEAN : WalLogEntries(Replica, o, oc)
    \/ WalProducerRead(Replica)
    \/ WalProducerReadError(Replica)
    \/ WalProducerSend(Replica)
    \/ WalConsumerRecv(Replica)
    \/ WalConsumerCancel(Replica)
    \/ WalAppend
    \/ ReplHelloInsert(Replica)
    \/ ReplHelloReturn(Replica)
    \/ \E o \in ReqOffsets : ReplLogEntries(Replica, o)
    \/ ReplStreamPoll(Replica)
    \/ ReplStreamPollError(Replica)
    \/ \E why \in {"error", "cancelled", "closed"} : ReplStreamDrop(Replica, why)
    \/ ReplAppend
    \/ \E upto \in 1..MaxLog : ReplCompact(upto)

SpecStream == InitService /\ [][StreamNext]_vars

\* A server with the ReplicationLogService.
InitRepl ==
    /\ InitService
    /\ service = "ReplicationLogService"

\* Snapshots: one replica's handshake and snapshot requests, the producer
\* and the consumer of its snapshot stream, the writer and the compaction.
SnapNext ==
    \/ ReplHelloInsert(Replica)
    \/ ReplHelloReturn(Replica)
    \/ ReplAppend
    \/ \E upto \in 1..MaxLog : ReplCompact(upto)
    \/ \E o \in ReqOffsets : ReplSnapshot(Replica, o)
    \/ \E o \in ReqOffsets, f \in LookupFailures : ReplSnapshotLookupFails(Replica, o, f)
    \/ SnapProducerNext(Replica)
    \/ SnapProducerNextError(Replica)
    \/ SnapProducerSend(Replica)
    \/ SnapConsumerRecv(Replica)
    \/ SnapConsumerCancel(Replica)

SpecSnap == InitRepl /\ [][SnapNext]_vars

\* The same with the scheduling of a snapshot session: the producer's blocking
\* task runs on, and the consumer keeps polling the stream it has not dropped.
SpecSnapFair ==
    /\ SpecSnap
    /\ WF_vars(SnapProducerNext(Replica))
    /\ WF_vars(SnapProducerSend(Replica))
    /\ WF_vars(SnapConsumerRecv(Replica))

\* A server behind a slow consumer: the log has grown to Backlog frames (all
\* of them in the newest snapshot, in the ReplicationLogService) and the
\* replica has said Hello.
InitBacklog ==
    /\ StmtIdle
    /\ ServerRunning
    /\ service \in Services
    /\ idle_shutdown_layer = "None"
    /\ replicas_with_hello = {Replica}
    /\ hello = [c \in Clients |->
                  IF c = Replica THEN [pc |-> "idle", resp |-> "Ok"]
                  ELSE [pc |-> "idle", resp |-> "none"]]
    /\ log = [i \in 1..Backlog |-> [frame_no |-> i - 1]]
    /\ conn = [c \in Clients |-> NoConn]
    /\ compacted = IF service = "ReplicationLogService" THEN Backlog ELSE 0
    /\ connected_replicas = 0
    /\ snap = [c \in Clients |-> NoConn]

\* The replica's log_entries (WalLogService) and snapshot sessions over the
\* backlog, the consumer draining at any pace or cancelling.
BacklogNext ==
    \/ \E o \in {NoOffset, 0}, oc \in BOOLEAN : WalLogEntries(Replica, o, oc)
    \/ WalProducerRead(Replica)
    \/ WalProducerSend(Replica)
    \/ WalConsumerRecv(Replica)
    \/ WalConsumerCancel(Replica)
    \/ \E o \in {0, 1} : ReplSnapshot(Replica, o)
    \/ SnapProducerNext(Replica)
    \/ SnapProducerSend(Replica)
    \/ SnapConsumerRecv(Replica)
    \/ SnapConsumerCancel(Replica)

SpecBacklog == InitBacklog /\ [][BacklogNext]_vars

\* A second replica, with sessions of its own.
OtherReplica == "a2"

\* A server whose two replicas have said Hello.
InitRegistered ==
    /\ StmtIdle
    /\ ServerRunning
    /\ service \in Services
    /\ idle_shutdown_layer =
          IF service = "ReplicationLogService" THEN "Some" ELSE "None"
    /\ replicas_with_hello = Addrs
    /\ hello = [c \in Clients |->
                  IF c \in Addrs THEN [pc |-> "idle", resp |-> "Ok"]
                  ELSE [pc |-> "idle", resp |-> "none"]]
    /\ log = <<>>
    /\ conn = [c \in Clients |-> NoConn]
    /\ compacted = 0
    /\ connected_replicas = 0
    /\ snap = [c \in Clients |-> NoConn]

\* Concurrent sessions, each followed frame by frame: two log_entries
\* sessions in the WalLogService; a log_entries session of one replica and a
\* snapshot session of the other in the ReplicationLogService.
ConcurrentNext ==
    \/ \E c \in Addrs, oc \in BOOLEAN : WalLogEntries(c, NoOffset, oc)
    \/ \E c \in Addrs : WalProducerRead(c)
    \/ \E c \in Addrs : WalProducerReadError(c)
    \/ \E c \in Addrs : WalProducerSend(c)
    \/ \E c \in Addrs : WalConsumerRecv(c)
    \/ \E c \in Addrs : WalConsumerCancel(c)
    \/ WalAppend
    \/ ReplLogEntries(Replica, 0)
    \/ ReplStreamPoll(Replica)
    \/ ReplStreamPollError(Replica)
    \/ \E why \in {"error", "cancelled", "closed"} : ReplStreamDrop(Replica, why)
    \/ ReplAppend
    \/ \E upto \in 1..MaxLog : ReplCompact(upto)
    \/ ReplSnapshot(OtherReplica, 0)
    \/ SnapProducerNext(OtherReplica)
    \/ SnapProducerNextError(OtherReplica)
    \/ SnapProducerSend(OtherReplica)
    \/ SnapConsumerRecv(OtherReplica)
    \/ SnapConsumerCancel(OtherReplica)

SpecConcurrent == InitRegistered /\ [][ConcurrentNext]_vars

\* The registry of handshakes and the count of connected replicas under every
\* request of the services: Hello and log_entries from each client, with or
\* without a remote address, the sessions ending, and one replica's snapshot
\* requests over a log that grows and is compacted once.
RegistryNext ==
    \/ \E c \in Clients : WalHelloInsert(c)
    \/ \E c \in Addrs : WalHelloReturn(c)
    \/ \E c \in Clients, oc \in BOOLEAN : WalLogEntries(c, NoOffset, oc)
    \/ \E c \in Addrs : WalConsumerCancel(c)
    \/ \E c \in Clients : ReplHelloInsert(c)
    \/ \E c \in Addrs : ReplHelloReturn(c)
    \/ \E c \in Clients : ReplLogEntries(c, 0)
    \/ \E c \in Addrs : ReplStreamPollError(c)
    \/ \E c \in Addrs, why \in {"error", "cancelled", "closed"} : ReplStreamDrop(c, why)
    \/ ReplAppend
    \/ ReplCompact(1)
    \/ ReplSnapshot(Replica, 0)
    \/ \E f \in LookupFailures : ReplSnapshotLookupFails(Replica, 0, f)
    \/ SnapConsumerCancel(Replica)

SpecRegistry == InitService /\ [][RegistryNext]_vars

\* run_server from its first loop iteration, the database directory there
\* from an earlier run or not.
InitServer ==
    /\ StmtIdle
    /\ service = "ReplicationLogService"
    /\ idle_shutdown_layer = "None"
    /\ ServiceIdle
    /\ serverPc = "loop_top"
    /\ returned = "none"
    /\ db_path \in {"absent", "used"}
    /\ system = SystemNew
    /\ HARD_RESET = NotifyNew
    /\ SHUTDOWN = NotifyNew
    /\ starts = 0
    /\ wipes = 0

\* The supervisor loop, the services' tasks and the senders of the two signals.
ServerNext ==
    \/ RunServerCreateDir
    \/ RunServerCreateDirFails
    \/ RunServerStart
    \/ RunServerStartFails
    \/ SelectHardReset
    \/ HardResetAwait
    \/ HardResetRemove
    \/ HardResetRemoveFails
    \/ SelectShutdown
    \/ SelectSystem
    \/ \E s \in ServiceNames : ServiceEnds(s)
    \/ \E how \in {"notify_one", "notify_waiters"} : NotifyHardReset(how)
    \/ \E how \in {"notify_one", "notify_waiters"} : NotifyShutdown(how)

SpecServer == InitServer /\ [][ServerNext]_vars

----------------------------------------------------------------------------
(* C1: from every starting state and for every sequence of statement kinds,  *)
(* Statements::state returns the left-to-right fold of the transition table  *)
(* of the specification; [BEGIN] from Start gives TxnOpened, [BEGIN, COMMIT] *)
(* TxnClosed, [BEGIN, BEGIN] Invalid, [COMMIT] TxnClosed, and Other leaves   *)
(* the state as it is.                                                       *)
SpecTable ==
    [s \in State |->
        CASE s = "Start"     -> [TxnBegin |-> "TxnOpened", TxnEnd |-> "TxnClosed", Other |-> "Start"]
          [] s = "TxnOpened" -> [TxnBegin |-> "Invalid",   TxnEnd |-> "TxnClosed", Other |-> "TxnOpened"]
          [] s = "TxnClosed" -> [TxnBegin |-> "TxnOpened", TxnEnd |-> "Invalid",   Other |-> "TxnClosed"]
          [] s = "Invalid"   -> [TxnBegin |-> "Invalid",   TxnEnd |-> "Invalid",   Other |-> "Invalid"]]

RECURSIVE TableFold(_, _)
TableFold(s, ks) ==
    IF ks = <<>> THEN s ELSE TableFold(SpecTable[s][Head(ks)], Tail(ks))

C1_StateFoldsTable ==
    stmtPc = "done" =>
        /\ result = TableFold(initial, kinds)
        /\ (initial = "Start" /\ kinds = <<"TxnBegin">> => result = "TxnOpened")
        /\ (initial = "Start" /\ kinds = <<"TxnBegin", "TxnEnd">> => result = "TxnClosed")
        /\ (initial = "Start" /\ kinds = <<"TxnBegin", "TxnBegin">> => result = "Invalid")
        /\ (initial = "Start" /\ kinds = <<"TxnEnd">> => result = "TxnClosed")
        /\ (kinds = <<"Other">> => result = initial)

C1_Witness ==
    /\ stmtPc = "done"
    /\ initial = "Start"
    /\ kinds = <<"TxnBegin", "TxnEnd", "TxnEnd">>
    /\ result = "Invalid"

----------------------------------------------------------------------------
(* C2 (as amended): in both services a log_entries request of identity A     *)
(* returns a stream only if a Hello of that same identity A has registered A *)
(* before (its insert is done; its response may still be on its way); else   *)
(* it fails with FailedPrecondition NO_HELLO and opens no stream.  A Hello   *)
(* of another identity never authorises A, and a request without a remote    *)
(* address never gets a stream.                                              *)
HelloRegistered(c) == hello[c].pc = "inserted" \/ hello[c].resp = "Ok"

C2_HelloGatesLogEntries ==
    /\ \A c \in Addrs :
          /\ conn[c].kind = "stream" => HelloRegistered(c)
          /\ conn[c].kind = "rejected" =>
                conn[c] = Rejected("FailedPrecondition", NO_HELLO_ERROR_MSG)
          /\ (conn[c].kind # "none" /\ ~HelloRegistered(c)) => conn[c].kind = "rejected"
    /\ conn[NoAddr].kind # "stream"

C2_Witness ==
    /\ service = "WalLogService"
    /\ conn["a1"].kind = "stream"
    /\ hello["a1"].resp = "Ok"
    /\ hello["a2"] = [pc |-> "idle", resp |-> "none"]
    /\ conn["a2"] = Rejected("FailedPrecondition", NO_HELLO_ERROR_MSG)

(* C2 as claimed: a stream only if a Hello of the same identity has completed *)
(* (returned its response) before.                                            *)
C2_HelloCompletedFirst ==
    \A c \in Addrs : conn[c].kind = "stream" => hello[c].resp = "Ok"

----------------------------------------------------------------------------
(* C3: with an idle-shutdown layer, the connected-replica count is its       *)
(* initial value (0) plus the number of log_entries streams established and  *)
(* not yet dropped, whatever ended the others (error, cancellation, close):  *)
(* one increment per stream, one decrement per drop, never below 0.          *)
LiveStreams == {c \in Addrs : conn[c].kind = "stream" /\ conn[c].state # "dropped"}

C3_CountIsLiveStreams ==
    service = "ReplicationLogService" =>
        /\ idle_shutdown_layer = "Some" => connected_replicas = Cardinality(LiveStreams)
        /\ connected_replicas >= 0

C3_Witness ==
    /\ service = "ReplicationLogService"
    /\ idle_shutdown_layer = "Some"
    /\ conn["a1"].kind = "stream" /\ conn["a1"].end = "error"
    /\ conn["a2"].kind = "stream" /\ conn["a2"].state = "open"
    /\ connected_replicas = 1

----------------------------------------------------------------------------
(* C4: what a log_entries session started at offset k has handed to its      *)
(* consumer (and, in the WalLogService, queued for it) is the log's frames   *)
(* at offsets k, k+1, k+2, ... in that order, without gap or duplicate,      *)
(* while the writer appends; an error item can only be the last item.        *)
FramesFrom(k, items) ==
    \A i \in 1..Len(items) :
        /\ k + i <= Len(log)
        /\ items[i] = OkFrame(log[k + i])
        /\ items[i].data.frame_no = k + i - 1

C4_FramesInOffsetOrder ==
    \A c \in Addrs :
        conn[c].kind = "stream" =>
            IF service = "WalLogService"
            THEN FramesFrom(conn[c].start, conn[c].delivered \o conn[c].chan)
            ELSE LET d == conn[c].delivered
                     n == IF d # <<>> /\ d[Len(d)].item = "err" THEN Len(d) - 1 ELSE Len(d)
                 IN  FramesFrom(conn[c].start, SubSeq(d, 1, n))

C4_Witness ==
    /\ service = "WalLogService"
    /\ conn[Replica].kind = "stream"
    /\ conn[Replica].start = 1
    /\ Len(conn[Replica].delivered) = 2
    /\ Len(conn[Replica].chan) = 1
    /\ Len(log) = 4

----------------------------------------------------------------------------
(* C5: inside an active log_entries session a read that finds the offset not *)
(* yet appended is not terminal: the step that makes it neither ends the     *)
(* session's production nor yields an error item.                            *)
C5_AheadIsNotTerminal ==
    [][\A c \in Addrs :
          IF conn[c].kind # "stream" \/ conn[c].offset < Len(log) THEN TRUE
          ELSE IF service = "WalLogService"
          THEN conn[c].pc = "read" => conn'[c].pc # "exited"
          ELSE (conn[c].state = "open" /\ conn'[c].state = "done") =>
                   conn'[c].reads[Len(conn'[c].reads)] # "Ahead"]_vars

----------------------------------------------------------------------------
(* C6 (finite form): a log_entries session whose consumer keeps draining and *)
(* has not cancelled never comes to the end of its stream with a frame at or *)
(* after its start offset in the log and not delivered: after the end no     *)
(* frame is delivered any more.  Read failures aside.                        *)
C6_NoFrameLeftBehind ==
    \A c \in Addrs :
        (service = "WalLogService" /\ conn[c].kind = "stream"
            /\ conn[c].rx = "ended" /\ conn[c].pc = "exited")
        => Len(log) <= conn[c].start + Len(conn[c].delivered)

----------------------------------------------------------------------------
(* C7: when the log read behind an item of a log_entries session answered    *)
(* SnapshotRequired, the item is the FailedPrecondition status NEED_SNAPSHOT *)
(* (no frame, no Internal, no OutOfRange, no silent end), and it ends the    *)
(* session.                                                                  *)
C7_CompactedIsNeedSnapshot ==
    \A c \in Addrs :
        (service = "ReplicationLogService" /\ conn[c].kind = "stream") =>
            /\ Len(conn[c].delivered) = Len(conn[c].reads)
            /\ \A i \in 1..Len(conn[c].reads) :
                  conn[c].reads[i] = "SnapshotRequired" =>
                      /\ conn[c].delivered[i] =
                            Status("FailedPrecondition", NEED_SNAPSHOT_ERROR_MSG)
                      /\ i = Len(conn[c].reads)
                      /\ conn[c].state # "open"

C7_Witness ==
    /\ service = "ReplicationLogService"
    /\ conn[Replica].kind = "stream"
    /\ conn[Replica].reads = <<"Frame", "SnapshotRequired">>
    /\ conn[Replica].delivered[2].code = "FailedPrecondition"

----------------------------------------------------------------------------
(* C8: a snapshot request of an identity no Hello has registered fails with  *)
(* FailedPrecondition NO_HELLO and streams nothing.                          *)
C8_SnapshotNeedsHello ==
    \A c \in Addrs :
        (snap[c].kind # "none" /\ ~HelloRegistered(c)) =>
            /\ snap[c].kind = "rejected"
            /\ snap[c].code = "FailedPrecondition"

----------------------------------------------------------------------------
(* C9: a snapshot request whose lookup finds no covering snapshot fails with *)
(* Unavailable, opens no stream and spawns no producer; one whose lookup     *)
(* itself fails is answered Internal; only a found snapshot opens a stream.  *)
C9_SnapshotLookupStatus ==
    \A c \in Addrs :
        /\ snap[c].kind = "rejected" =>
              /\ snap[c].lookup = "None" => snap[c].code = "Unavailable"
              /\ snap[c].lookup \in {"Err", "JoinErr"} => snap[c].code = "Internal"
              /\ snap[c].lookup # "Some"
        /\ snap[c].kind = "snapshot" => snap[c].lookup = "Some"

C9_Witness ==
    /\ compacted = 1
    /\ Len(log) = 2
    /\ snap[Replica] = SnapRejected("Unavailable", "snapshot not found", "None")

----------------------------------------------------------------------------
(* C10: a stream never ends cleanly after an internal read failure of its    *)
(* producer: when the consumer has seen the end of such a stream, the last   *)
(* item it received is an error.                                             *)
LastIsError(items) == items # <<>> /\ items[Len(items)].item = "err"

C10_NoSilentTruncation ==
    \A c \in Addrs :
        /\ (service = "WalLogService" /\ conn[c].kind = "stream"
               /\ conn[c].pc = "panicked" /\ conn[c].rx = "ended")
           => LastIsError(conn[c].delivered)
        /\ (service = "ReplicationLogService" /\ conn[c].kind = "stream"
               /\ conn[c].reads # <<>> /\ conn[c].reads[Len(conn[c].reads)] = "Error")
           => LastIsError(conn[c].delivered)
        /\ (snap[c].kind = "snapshot" /\ snap[c].failed /\ snap[c].rx = "ended")
           => LastIsError(snap[c].delivered)

----------------------------------------------------------------------------
(* C11: once the consumer has dropped its end of a log_entries or snapshot   *)
(* stream, the producer's next send, which fails, is its last step: it       *)
(* terminates there and goes back to no further read for the cancelled       *)
(* session.                                                                  *)
C11_ProducerStopsAfterCancel ==
    [][\A c \in Addrs :
          /\ (service = "WalLogService" /\ conn[c].kind = "stream"
                 /\ conn[c].rx = "dropped" /\ conn[c].pc = "send"
                 /\ conn'[c] # conn[c])
             => conn'[c].pc = "exited"
          /\ (snap[c].kind = "snapshot"
                 /\ snap[c].rx = "dropped" /\ snap[c].pc = "send"
                 /\ snap'[c] # snap[c])
             => snap'[c].pc = "exited"]_vars

----------------------------------------------------------------------------
(* C12: in a log_entries session of the WalLogService and in a snapshot      *)
(* session, the frames sent and not yet received never exceed the channel's  *)
(* capacity (64 and 10), however slow the consumer; the producer has read at *)
(* most one frame beyond them (the one it is blocked sending), and every     *)
(* frame it has read is received, queued or that one: none is dropped.       *)
Items(frames) == [i \in 1..Len(frames) |-> OkFrame(frames[i])]

C12_ChannelBoundsProducer ==
    \A c \in Addrs :
        /\ (service = "WalLogService" /\ conn[c].kind = "stream") =>
              /\ Len(conn[c].chan) <= WalChannelCapacity
              /\ conn[c].rx = "open" =>
                    /\ conn[c].offset = conn[c].start + Len(conn[c].delivered) + Len(conn[c].chan)
                    /\ conn[c].delivered \o conn[c].chan =
                          Items(SubSeq(log, conn[c].start + 1, conn[c].offset))
                    /\ conn[c].pc = "send" => conn[c].held = log[conn[c].offset + 1]
        /\ snap[c].kind = "snapshot" =>
              /\ Len(snap[c].chan) <= SnapshotChannelCapacity
              /\ (snap[c].rx = "open" /\ ~snap[c].failed) =>
                    snap[c].delivered \o snap[c].chan
                       \o (IF snap[c].pc = "send" THEN <<snap[c].held>> ELSE <<>>)
                       \o Items(snap[c].frames)
                    = Items(snap[c].iter)

C12_Witness ==
    /\ service = "WalLogService"
    /\ conn[Replica].kind = "stream"
    /\ Len(conn[Replica].chan) = WalChannelCapacity
    /\ conn[Replica].pc = "send"
    /\ conn[Replica].rx = "open"
    /\ Len(conn[Replica].delivered) >= 1

----------------------------------------------------------------------------
(* C13: Invalid is absorbing for the fold of Statements::state: when the     *)
(* starting state is Invalid, or the fold is Invalid after some prefix of    *)
(* the batch, the state returned after the rest of the batch (any kinds, in  *)
(* any order) is Invalid.                                                    *)
C13_InvalidIsAbsorbing ==
    stmtPc = "done" =>
        /\ initial = "Invalid" => result = "Invalid"
        /\ \A i \in 0..Len(kinds) :
              StatementsState(SubSeq(kinds, 1, i), initial) = "Invalid"
                  => result = "Invalid"

C13_Witness ==
    /\ stmtPc = "done"
    /\ initial = "Start"
    /\ kinds = <<"TxnBegin", "TxnBegin", "TxnEnd">>
    /\ result = "Invalid"

----------------------------------------------------------------------------
(* C14 (as amended): a transaction-begin applied while a transaction is open *)
(* (state TxnOpened) and a transaction-end applied after a transaction was   *)
(* closed (state TxnClosed) each give Invalid, and so does the batch; a      *)
(* transaction-end applied in state Start gives TxnClosed.                   *)
StateBefore(i) == StatementsState(SubSeq(kinds, 1, i - 1), initial)
StateAfter(i) == StatementsState(SubSeq(kinds, 1, i), initial)

C14_BadSequencingIsInvalid ==
    stmtPc = "done" =>
        \A i \in 1..Len(kinds) :
            /\ (StateBefore(i) = "TxnOpened" /\ kinds[i] = "TxnBegin")
                  => (StateAfter(i) = "Invalid" /\ result = "Invalid")
            /\ (StateBefore(i) = "TxnClosed" /\ kinds[i] = "TxnEnd")
                  => (StateAfter(i) = "Invalid" /\ result = "Invalid")
            /\ (StateBefore(i) = "Start" /\ kinds[i] = "TxnEnd")
                  => StateAfter(i) = "TxnClosed"

C14_Witness ==
    /\ stmtPc = "done"
    /\ initial = "TxnClosed"
    /\ kinds = <<"Other", "TxnEnd", "TxnBegin">>
    /\ result = "Invalid"

(* C14 as claimed: a transaction-end applied in state Start or TxnClosed, and *)
(* a transaction-begin applied in state TxnOpened, each give Invalid.         *)
C14_EndWithoutOpenIsInvalid ==
    stmtPc = "done" =>
        \A i \in 1..Len(kinds) :
            ((StateBefore(i) = "TxnOpened" /\ kinds[i] = "TxnBegin")
               \/ (StateBefore(i) \in {"Start", "TxnClosed"} /\ kinds[i] = "TxnEnd"))
            => StateAfter(i) = "Invalid"

----------------------------------------------------------------------------
(* C15: parsing a batch that holds a SET TRANSACTION or a SAVEPOINT, at any  *)
(* place and among any other statements, panics: no Statements value is      *)
(* built, so no statement of the batch gets a kind and no state is computed. *)
C15_UnhandledFailsLoudly ==
    (stmtPc \notin {"idle", "parse"} /\ \E i \in 1..Len(ast) : ast[i] \in Unhandled)
        => /\ stmtPc = "panicked"
           /\ kinds = <<>>
           /\ result = "none"

C15_Witness ==
    /\ stmtPc = "panicked"
    /\ ast = <<"Query", "Savepoint", "Commit">>

----------------------------------------------------------------------------
(* C16: every step of the server that removes the database directory comes   *)
(* after a HARD_RESET notification (there are never more removals than       *)
(* notifications of HARD_RESET), with system.shutdown() called and every     *)
(* registered service finished; a run in which only SHUTDOWN is notified or  *)
(* services end on their own never removes it.                               *)
C16_WipeOnlyOnHardReset ==
    [][(db_path # "absent" /\ db_path' = "absent") =>
          /\ HARD_RESET.sent > 0
          /\ wipes' <= HARD_RESET.sent
          /\ system.shutdown
          /\ \A s \in ServiceNames : system.tasks[s] = "finished"
          /\ returned = "none"]_vars

C16_Witness ==
    /\ wipes = 1
    /\ db_path = "absent"
    /\ HARD_RESET.sent = 1
    /\ SHUTDOWN.sent = 1
    /\ system.shutdown

----------------------------------------------------------------------------
(* C20: the step that takes a HARD_RESET notification goes into hard_reset,  *)
(* and the removal of the directory is followed by a new loop iteration,     *)
(* which (unless create_dir_all or the start fails, whose error run_server   *)
(* returns) recreates the directory, empty, and registers the services       *)
(* again; the step that takes a SHUTDOWN notification, and the completion of *)
(* the system, return from run_server with the directory as it was and no    *)
(* service started; after the return nothing is removed or started.          *)
C20_ResetRestartsShutdownReturns ==
    [][/\ (HARD_RESET.permit /\ ~HARD_RESET'.permit)
             => (serverPc' = "hard_reset_await" /\ returned' = "none")
       /\ wipes' # wipes
             => (serverPc' = "loop_top" /\ returned' = "none")
       /\ (serverPc = "loop_top" /\ serverPc' # "loop_top")
             => \/ serverPc' = "start" /\ db_path' # "absent"
                      /\ (db_path = "absent" => db_path' = "empty")
                \/ serverPc' = "returned" /\ returned' = "Err"
       /\ (serverPc = "start" /\ serverPc' # "start")
             => \/ /\ serverPc' = "select"
                   /\ starts' = starts + 1
                   /\ system' = SystemRegister(SystemNew, ServiceNames)
                \/ serverPc' = "returned" /\ returned' = "Err"
       /\ (SHUTDOWN.permit /\ ~SHUTDOWN'.permit)
             => (serverPc' = "returned" /\ returned' = "Ok")
       /\ (serverPc = "select" /\ serverPc' = "returned")
             => /\ returned' \in {"Ok", "res"}
                /\ returned' = "res" => SystemDone(system)
                /\ db_path' = db_path /\ wipes' = wipes /\ starts' = starts
       /\ serverPc = "returned"
             => /\ serverPc' = "returned" /\ returned' = returned
                /\ db_path' = db_path /\ wipes' = wipes /\ starts' = starts]_vars

C20_Witness ==
    /\ serverPc = "returned"
    /\ returned = "Ok"
    /\ wipes = 1
    /\ starts = 2
    /\ db_path = "used"

----------------------------------------------------------------------------
(* C19: a log_entries stream of the WalLogService starts at frame 0 when the *)
(* request carries no current offset and at frame c+1 when it carries c: the *)
(* request is answered with a stream, no frame at or before c is sent again, *)
(* and the first frame sent is the one right after c.                        *)
C19_StartsAfterCurrentOffset ==
    \A c \in Addrs :
        service = "WalLogService" =>
            /\ conn[c].kind # "panicked"
            /\ conn[c].kind = "stream" =>
                  /\ conn[c].start = IF conn[c].req = NoOffset THEN 0 ELSE conn[c].req + 1
                  /\ \A i \in 1..Len(conn[c].delivered) :
                        /\ conn[c].delivered[i].item = "frame"
                        /\ conn[c].delivered[i].data.frame_no > conn[c].req
                        /\ conn[c].delivered[i].data.frame_no
                              = (IF conn[c].req = NoOffset THEN 0 ELSE conn[c].req + 1) + i - 1

----------------------------------------------------------------------------
(* C17: a step of one replica's log_entries or snapshot session (its start,  *)
(* a frame, its cancellation, its error or its end) leaves the log, the      *)
(* compaction boundary, the registrations and every other replica's sessions *)
(* as they were; and after every step each session has delivered the frames  *)
(* from its start offset on, in order and without a gap, whatever became of  *)
(* the other sessions.                                                       *)
FramesOf(items) ==
    IF items # <<>> /\ items[Len(items)].item = "err"
    THEN SubSeq(items, 1, Len(items) - 1)
    ELSE items

SessionsInOrder ==
    \A c \in Addrs :
        /\ conn[c].kind = "stream" => FramesFrom(conn[c].start, FramesOf(conn[c].delivered))
        /\ snap[c].kind = "snapshot" =>
              FramesOf(snap[c].delivered)
                 = Items(SubSeq(snap[c].iter, 1, Len(FramesOf(snap[c].delivered))))

C17_SessionsAreIndependent ==
    [][/\ \A c \in Addrs :
             (conn'[c] # conn[c] \/ snap'[c] # snap[c]) =>
                 /\ log' = log
                 /\ compacted' = compacted
                 /\ replicas_with_hello' = replicas_with_hello
                 /\ \A d \in Addrs \ {c} : conn'[d] = conn[d] /\ snap'[d] = snap[d]
       /\ SessionsInOrder']_vars

C17_Witness ==
    /\ service = "WalLogService"
    /\ conn[Replica].kind = "stream"
    /\ conn[Replica].rx = "dropped"
    /\ conn[OtherReplica].kind = "stream"
    /\ conn[OtherReplica].rx = "open"
    /\ Len(conn[OtherReplica].delivered) = 3
    /\ Len(conn[Replica].delivered) = 1

----------------------------------------------------------------------------
(* C18: a snapshot session is finite.  Its producer always terminates, and   *)
(* only when the iterator is exhausted or has given its first error; a       *)
(* consumer that keeps draining comes to the end of the stream, and when the *)
(* iterator gave no error it has then received every frame of the iterator   *)
(* from the requested offset, in iterator order, and no error item.          *)
SnapshotEndsComplete ==
    snap[Replica].kind = "snapshot" =>
        /\ snap[Replica].pc = "exited" =>
              IF snap[Replica].failed
              THEN Len(snap[Replica].delivered \o snap[Replica].chan) <= Len(snap[Replica].iter)
              ELSE snap[Replica].frames = <<>>
        /\ (snap[Replica].rx = "ended" /\ ~snap[Replica].failed) =>
              snap[Replica].delivered = Items(snap[Replica].iter)
        /\ (snap[Replica].rx = "ended" /\ snap[Replica].failed) =>
              /\ LastIsError(snap[Replica].delivered)
              /\ FramesOf(snap[Replica].delivered)
                    = Items(SubSeq(snap[Replica].iter, 1, Len(snap[Replica].delivered) - 1))

ProducerRunning == snap[Replica].kind = "snapshot" /\ snap[Replica].pc # "exited"
StreamOpen == snap[Replica].kind = "snapshot" /\ snap[Replica].rx = "open"

C18_SnapshotIsFinite ==
    /\ []SnapshotEndsComplete
    /\ ProducerRunning ~> ~ProducerRunning
    /\ StreamOpen ~> ~StreamOpen

C18_Witness ==
    /\ snap[Replica].kind = "snapshot"
    /\ snap[Replica].pc = "exited"
    /\ snap[Replica].rx = "ended"
    /\ ~snap[Replica].failed
    /\ Len(snap[Replica].delivered) = 3
    /\ snap[Replica].delivered[1].data.frame_no = 1

----------------------------------------------------------------------------
(* C23: the state Statements::state returns for a batch from a starting      *)
(* state is, for every split of the batch in two consecutive sub-batches,    *)
(* the state it returns for the second from the state it returns for the     *)
(* first; and for the empty batch it is the starting state.                  *)
C23_FoldIsCompositional ==
    stmtPc = "done" =>
        /\ kinds = <<>> => result = initial
        /\ \A k \in 0..Len(kinds) :
              StatementsState(SubSeq(kinds, k + 1, Len(kinds)),
                              StatementsState(SubSeq(kinds, 1, k), initial))
                 = result

C23_Witness ==
    /\ stmtPc = "done"
    /\ initial = "TxnClosed"
    /\ kinds = <<"TxnBegin", "Other", "TxnEnd">>
    /\ result = "TxnClosed"

----------------------------------------------------------------------------
(* C21: the set of replicas that said Hello only grows.  No step of a        *)
(* service (Hello, log_entries, snapshot, a session ending or being          *)
(* cancelled) takes an identity out of it; a Hello from an identity already  *)
(* in it leaves it as it is; so an identity whose Hello has completed is in  *)
(* the set from then on, and no later log_entries request of it is answered  *)
(* with the registration check's rejection.                                  *)
NoHelloRejection == Rejected("FailedPrecondition", NO_HELLO_ERROR_MSG)

C21_RegistrationOnlyGrows ==
    [][/\ replicas_with_hello \subseteq replicas_with_hello'
       /\ \A c \in Clients :
             /\ (c \in replicas_with_hello /\ hello'[c] # hello[c])
                   => replicas_with_hello' = replicas_with_hello
             /\ hello[c].resp = "Ok"
                   => /\ c \in replicas_with_hello /\ c \in replicas_with_hello'
                      /\ conn'[c] # conn[c] => conn'[c] # NoHelloRejection]_vars

\* A replica saying Hello again after its session ended, next to another
\* registered replica.
C21_Witness ==
    /\ service = "ReplicationLogService"
    /\ replicas_with_hello = Addrs
    /\ hello[Replica] = [pc |-> "inserted", resp |-> "Ok"]
    /\ conn[Replica].kind = "stream"
    /\ conn[Replica].state = "dropped"
    /\ conn[OtherReplica] = NoHelloRejection
    /\ snap[Replica].kind = "snapshot"

----------------------------------------------------------------------------
(* C22: a rejected request changes no service state.  A log_entries request  *)
(* answered Internal (no remote address) or FailedPrecondition (no Hello)    *)
(* leaves the count of connected replicas, the live streams and the set of   *)
(* registered replicas as they were; a Hello without a remote address is     *)
(* answered Internal and registers nothing; and no step of a snapshot        *)
(* request, answered with a stream or not, changes the count or the set.     *)
C22_RejectedChangesNothing ==
    [][/\ \A c \in Clients :
             (conn'[c] # conn[c] /\ conn'[c].kind = "rejected") =>
                /\ conn'[c] = IF c = NoAddr
                              THEN Rejected("Internal", NO_REMOTE_ADDR_MSG)
                              ELSE NoHelloRejection
                /\ c \in Addrs => c \notin replicas_with_hello
                /\ connected_replicas' = connected_replicas
                /\ replicas_with_hello' = replicas_with_hello
                /\ IF service = "ReplicationLogService"
                   THEN LiveStreams' = LiveStreams ELSE TRUE
       /\ hello'[NoAddr] # hello[NoAddr] =>
             /\ hello'[NoAddr] = [pc |-> "idle", resp |-> "Internal"]
             /\ replicas_with_hello' = replicas_with_hello
             /\ NoAddr \notin replicas_with_hello'
       /\ snap' # snap =>
             /\ connected_replicas' = connected_replicas
             /\ replicas_with_hello' = replicas_with_hello]_vars

\* Both rejections of log_entries, the rejected Hello and a snapshot stream,
\* next to the one registered replica's live stream.
C22_Witness ==
    /\ service = "ReplicationLogService"
    /\ idle_shutdown_layer = "Some"
    /\ conn[NoAddr] = Rejected("Internal", NO_REMOTE_ADDR_MSG)
    /\ conn[Replica] = NoHelloRejection
    /\ hello[NoAddr].resp = "Internal"
    /\ snap[Replica].kind = "snapshot"
    /\ replicas_with_hello = {OtherReplica}
    /\ connected_replicas = 1

====
